---- MODULE Spec2Model ----
(***************************************************************************)
(* Model of teaming/extract_providers_to_graphml.py: one run of            *)
(* extract_provider_network against a referral table and an NPI detail     *)
(* table.  The run stages identifiers in npi_to_export_to_graph, builds a  *)
(* networkx DiGraph from the staged identifiers and writes a GraphML file  *)
(* and two CSV files.                                                      *)
(*                                                                         *)
(* SQL result sets are sets of rows (records).  A cursor.execute may fail  *)
(* (the exception is not caught anywhere), which ends the run.             *)
(* The program is Python 2 with networkx 1.x: add_edge creates endpoints   *)
(* that are not yet nodes, with an empty attribute dictionary.             *)
(*                                                                         *)
(* Scope: graph_type is "directed" (the default; __main__ never passes     *)
(* another); npi is unique in the detail table; the referral table holds   *)
(* at most one row per ordered pair; the where clause is given by the set  *)
(* of detail rows that satisfy it.  The counter_dict and the log lines of  *)
(* add_edges_to_graph are printed only and are left out.                   *)
(***************************************************************************)
EXTENDS Integers, Sequences, FiniteSets, TLC

VARIABLES
    referral,               \* rows of the referral table: [from, to, weight]
    detail,                 \* NPI detail table: npi -> [provider_name]
    where_criteria,         \* the npi whose detail row satisfies the where clause
    add_leaf_nodes,         \* parameter of extract_provider_network
    add_leaf_to_leaf_edges, \* parameter of extract_provider_network
    csv_output,             \* parameter of extract_provider_network
    pc,                     \* the statement the run executes next
    failed_step,            \* the query step whose cursor.execute raised, or "none"
    table_exists,           \* npi_to_export_to_graph exists
    staging,                \* rows of npi_to_export_to_graph: [npi, node_type]
    unique_index,           \* idx_primary_npi_graph exists
    graph_node,             \* ProviderGraph.node: node -> attribute dictionary
    graph_edge,             \* ProviderGraph.edge: <<node1, node2>> -> [weight, edge_type]
    graphml_file,           \* <prefix>_provider_graph.graphml
    edge_csv_file,          \* <prefix>_edge_list_with_weights.csv
    node_csv_file           \* <prefix>_node_db.csv

inputs == <<referral, detail, where_criteria, add_leaf_nodes,
            add_leaf_to_leaf_edges, csv_output>>
database == <<table_exists, staging, unique_index>>
graph == <<graph_node, graph_edge>>
files == <<graphml_file, edge_csv_file, node_csv_file>>
vars == <<inputs, pc, failed_step, database, graph, files>>

----------------------------------------------------------------------------
(* Bounds and input domains *)

\* Largest number of rows of the referral table.
MaxReferrals == 3

\* The provider identifiers (npi) that occur in the tables.
Ids == {"A", "B", "C"}

\* SQL NULL / Python None in a fetched row.
NULL == "NULL"

\* The ordered pairs a referral row can join (one row per ordered pair).
Pairs == Ids \X Ids

\* The weight column of the referral row of each ordered pair.  Weights are
\* payload: the program copies them and never compares them.  They are all
\* different, so that an edge's weight tells which referral row it came from.
ReferralWeight(u, v) ==
    CASE u = "A" /\ v = "B" -> 5
      [] u = "B" /\ v = "A" -> 3
      [] u = "B" /\ v = "C" -> 1
      [] u = "A" /\ v = "C" -> 2
      [] u = "C" /\ v = "A" -> 4
      [] u = "C" /\ v = "B" -> 6
      [] u = "A" /\ v = "A" -> 7
      [] u = "B" /\ v = "B" -> 8
      [] u = "C" /\ v = "C" -> 9

ReferralRow(p) == [from |-> p[1], to |-> p[2], weight |-> ReferralWeight(p[1], p[2])]

\* The provider_name column of the detail row of an npi, when it is not NULL.
ProviderName(i) ==
    CASE i = "A" -> "Dr A"
      [] i = "B" -> "Dr B"
      [] i = "C" -> "Dr C"

EmptyMap == [x \in {} |-> {}]

\* node_label_name, the default of the parameter.
node_label_name == "provider_name"

----------------------------------------------------------------------------
(* Python dictionaries *)

Put(d, k, v) == [x \in (DOMAIN d) \cup {k} |-> IF x = k THEN v ELSE d[x]]

\* row_to_dictionary(row_obj, exclude_None=True): the columns that are not None.
RowToDictionary(row) ==
    [c \in {k \in DOMAIN row : row[k] # NULL} |-> row[c]]

\* The attribute dictionary add_nodes_to_graph builds for one fetched row.
NodeAttributes(row, node_type, label_name) ==
    LET attributes == RowToDictionary(row)
        labelled == IF label_name \in DOMAIN attributes
                    THEN Put(attributes, "Label", attributes[label_name])
                    ELSE attributes
    IN  Put(labelled, "node_type", node_type)

\* dict.update: the keys of new are set, the other keys of d are kept.
Update(d, new) ==
    [k \in (DOMAIN d) \cup (DOMAIN new) |-> IF k \in DOMAIN new THEN new[k] ELSE d[k]]

\* add_nodes_to_graph(cursor, graph, node_type, label_name): graph.add_node
\* for every fetched row.  networkx 1.x add_node(n, attr_dict) creates the
\* node with attr_dict, or updates the dictionary of a node that exists
\* (its other attributes are kept).
AddNodesToGraph(cursor, node, node_type, label_name) ==
    LET fetched == {row.npi : row \in cursor}
    IN  [n \in (DOMAIN node) \cup fetched |->
            IF n \in fetched
            THEN LET attributes ==
                        NodeAttributes(CHOOSE row \in cursor : row.npi = n,
                                       node_type, label_name)
                 IN  IF n \in DOMAIN node
                     THEN Update(node[n], attributes)
                     ELSE attributes
            ELSE node[n]]

----------------------------------------------------------------------------
(* The edge classifier and graph.add_edge *)

\* The if/elif chain of add_edges_to_graph.
EdgeType(to_node_type, from_node_type) ==
    IF to_node_type = "C" /\ from_node_type = "C" THEN "core-to-core"
    ELSE IF to_node_type = "L" /\ from_node_type = "C" THEN "leaf-to-core"
    ELSE IF to_node_type = "C" /\ from_node_type = "L" THEN "core-to-leaf"
    ELSE IF to_node_type = "L" /\ from_node_type = "L" THEN "leaf-to-leaf"
    ELSE "None"

\* The edges after add_edges_to_graph: graph.add_edge(edge[0], edge[1],
\* weight=edge[2], edge_type=edge_type) for every fetched row.
AddEdgesEdge(cursor, edge) ==
    LET fetched == {<<row.c0, row.c1>> : row \in cursor}
    IN  [e \in (DOMAIN edge) \cup fetched |->
            IF e \in fetched
            THEN LET row == CHOOSE r \in cursor : <<r.c0, r.c1>> = e
                 IN  [weight |-> row.c2,
                      edge_type |-> EdgeType(row.to_node_type, row.from_node_type)]
            ELSE edge[e]]

\* The nodes after add_edges_to_graph: add_edge adds each endpoint that is
\* not a node yet, with no attributes.
AddEdgesNode(cursor, node) ==
    LET ends == {row.c0 : row \in cursor} \cup {row.c1 : row \in cursor}
    IN  [n \in (DOMAIN node) \cup ends |->
            IF n \in DOMAIN node THEN node[n] ELSE EmptyMap]

----------------------------------------------------------------------------
(* The queries *)

\* Variant of CoreNodeQuery that leaves out the where clause.
CoreNodeQuery_NoWhere(ref, det, criteria) ==
    LET first == {tnd1 \in DOMAIN det : \E rt1 \in ref : rt1.from = tnd1}
        second == {tnd2 \in DOMAIN det : \E rt2 \in ref : rt2.to = tnd2}
    IN  {[npi |-> t, node_type |-> "C"] : t \in first \cup second}

\* core_node_query_to_execute: the rows the insert adds.  Each part joins the
\* referral table to the detail table on one side of the relationship and
\* keeps the detail rows that satisfy the where clause; union drops duplicates.
CoreNodeQuery(ref, det, criteria) ==
    LET first == {tnd1 \in DOMAIN det :
                    (\E rt1 \in ref : rt1.from = tnd1) /\ tnd1 \in criteria}
        second == {tnd2 \in DOMAIN det :
                    (\E rt2 \in ref : rt2.to = tnd2) /\ tnd2 \in criteria}
    IN  {[npi |-> t, node_type |-> "C"] : t \in first \cup second}

\* One row of "select * from npi_to_export_to_graph neg join <detail> tnd".
JoinedRow(neg, det) ==
    [npi |-> neg.npi, node_type |-> neg.node_type,
     provider_name |-> det[neg.npi].provider_name]

\* npi_detail_query_to_execute: every staged npi that has a detail row.
NpiDetailQuery(stg, det) ==
    {JoinedRow(neg, det) : neg \in {s \in stg : s.npi \in DOMAIN det}}

\* populate_leaf_nodes_query_to_execute: the same, where neg.node_type = 'L'.
PopulateLeafNodesQuery(stg, det) ==
    {JoinedRow(neg, det) :
        neg \in {s \in stg : s.npi \in DOMAIN det /\ s.node_type = "L"}}

\* Variant of AddLeafNodeQuery with the first part of the union only.
AddLeafNodeQuery_OneSide(ref, stg) ==
    LET staged == {neg.npi : neg \in stg}
        t == {rt1.from : rt1 \in {r \in ref : r.to \in staged}}
    IN  {[npi |-> n, node_type |-> "L"] : n \in t \ staged}

\* add_leaf_node_query_to_execute: the rows the insert adds.
AddLeafNodeQuery(ref, stg) ==
    LET staged == {neg.npi : neg \in stg}
        t == {rt1.from : rt1 \in {r \in ref : r.to \in staged}}
             \cup {rt2.to : rt2 \in {r \in ref : r.from \in staged}}
    IN  {[npi |-> n, node_type |-> "L"] : n \in t \ staged}

\* One fetched row of an edge query: the to field, the from field, the weight,
\* and the staged node_type of the to side and of the from side.
EdgeRow(rt, negto, negfrom) ==
    [c0 |-> rt.to, c1 |-> rt.from, c2 |-> rt.weight,
     to_node_type |-> negto.node_type, from_node_type |-> negfrom.node_type]

\* add_core_query_to_execute: query_first_part_edges union query_second_part_edges.
CoreEdgeQuery(ref, stg) ==
    LET first == {EdgeRow(j[1], j[2], j[3]) :
                    j \in {x \in ref \X stg \X stg :
                             /\ x[1].to = x[2].npi
                             /\ x[3].npi = x[1].from
                             /\ x[2].node_type = "C"}}
        second == {EdgeRow(j[1], j[3], j[2]) :
                    j \in {x \in ref \X stg \X stg :
                             /\ x[1].from = x[2].npi
                             /\ x[3].npi = x[1].to
                             /\ x[2].node_type = "C"}}
    IN  first \cup second

\* Variant of LeafEdgeQuery that joins the staging table on the from side only.
LeafEdgeQuery_FromSideOnly(ref, stg) ==
    {[c0 |-> j[1].to, c1 |-> j[1].from, c2 |-> j[1].weight,
      to_node_type |-> "L", from_node_type |-> j[2].node_type] :
        j \in {x \in ref \X stg : x[1].from = x[2].npi /\ x[2].node_type = "L"}}

\* leaf_query_to_execute: referral rows whose two sides are both staged 'L'.
LeafEdgeQuery(ref, stg) ==
    {EdgeRow(j[1], j[2], j[3]) :
        j \in {x \in ref \X stg \X stg :
                 /\ x[1].to = x[2].npi
                 /\ x[1].from = x[3].npi
                 /\ x[2].node_type = "L"
                 /\ x[3].node_type = "L"}}

\* idx_primary_npi_graph is a unique index on npi: no two rows share an npi.
UniqueNpi(rows) == \A r1, r2 \in rows : r1.npi = r2.npi => r1 = r2

----------------------------------------------------------------------------
(* The CSV writers *)

\* Attribute names in the order Python 2 sorts them (upper case first).
AttributeOrder == <<"Label", "node_type", "npi", "provider_name">>

\* header = node_dict.keys(); header.sort(); header = ["node_id"] + header
NodeCsvHeader(node_dict) ==
    <<"node_id">> \o SelectSeq(AttributeOrder, LAMBDA a : a \in DOMAIN node_dict)

\* row_to_write = [node], then one value for every entry of header.
NodeCsvRow(node, node_dict, header) ==
    <<node>> \o [k \in 1..Len(header) |->
                    IF header[k] \in DOMAIN node_dict
                    THEN node_dict[header[k]]
                    ELSE ""]

\* The rows of the edge CSV: (npi_from, npi_to, weight) for node1, node2 of
\* ProviderGraph.edge.
EdgeCsvRows(edge) == {<<e[1], e[2], edge[e].weight>> : e \in DOMAIN edge}

----------------------------------------------------------------------------
(* Control flow of extract_provider_network *)

\* Variant of AfterCoreNodes that ignores add_leaf_nodes.
AfterCoreNodes_Always(leaf_nodes) == "insert_leaf"

\* if add_leaf_nodes:
AfterCoreNodes(leaf_nodes) == IF leaf_nodes THEN "insert_leaf" ELSE "core_edges"

\* if add_leaf_to_leaf_edges:
AfterCoreEdges(leaf_edges) == IF leaf_edges THEN "leaf_edges" ELSE "write_graphml"

\* if csv_output:
AfterGraphml(csv) == IF csv THEN "write_edge_csv" ELSE "done"

\* Variant of OnQueryError that catches the error of the leaf-to-leaf query.
OnQueryError_Swallowed(step) ==
    IF step = "leaf_edges" THEN "write_graphml" ELSE "aborted"

\* No cursor.execute is inside a try: the exception leaves the function.
OnQueryError(step) == "aborted"

\* The steps that execute a query.
QuerySteps == {"drop_table", "create_table", "insert_core", "create_index",
               "core_nodes", "insert_leaf", "leaf_nodes", "core_edges",
               "leaf_edges"}

\* The statements of the run in program order.
StepOrder == <<"drop_table", "create_table", "insert_core", "create_index",
               "core_nodes", "insert_leaf", "leaf_nodes", "core_edges",
               "leaf_edges", "write_graphml", "write_edge_csv",
               "write_node_csv", "done">>

Position(step) == CHOOSE k \in 1..Len(StepOrder) : StepOrder[k] = step

\* The statement the run has reached: the next one, or the one that failed.
Reached == IF failed_step # "none" THEN failed_step ELSE pc

\* The run has gone past statement step (which it may have skipped).
Past(step) == Position(Reached) > Position(step)

----------------------------------------------------------------------------
(* Initial state: the tables, the arguments, nothing executed yet *)

Init ==
    /\ \E P \in SUBSET Pairs :
          /\ Cardinality(P) <= MaxReferrals
          /\ referral = {ReferralRow(p) : p \in P}
    /\ \E D \in SUBSET Ids : \E Named \in SUBSET D :
          /\ detail = [i \in D |->
                         [provider_name |-> IF i \in Named THEN ProviderName(i)
                                                           ELSE NULL]]
          /\ where_criteria \in SUBSET D
    /\ add_leaf_nodes \in BOOLEAN
    /\ add_leaf_to_leaf_edges \in BOOLEAN
    /\ csv_output \in BOOLEAN
    /\ pc = "drop_table"
    /\ failed_step = "none"
    /\ table_exists = FALSE
    /\ staging = {}
    /\ unique_index = FALSE
    /\ graph_node = EmptyMap
    /\ graph_edge = EmptyMap
    /\ graphml_file = [written |-> FALSE, node |-> EmptyMap, edge |-> EmptyMap]
    /\ edge_csv_file = [written |-> FALSE, rows |-> {}]
    /\ node_csv_file = [written |-> FALSE, header |-> <<>>, rows |-> {}]

----------------------------------------------------------------------------
(* The steps *)

\* cursor.execute("drop table if exists npi_to_export_to_graph;")
DropTable ==
    /\ pc = "drop_table"
    /\ table_exists' = FALSE
    /\ staging' = {}
    /\ unique_index' = FALSE
    /\ pc' = "create_table"
    /\ UNCHANGED <<inputs, failed_step, graph, files>>

\* cursor.execute("create table npi_to_export_to_graph (npi, node_type);")
CreateTable ==
    /\ pc = "create_table"
    /\ ~table_exists
    /\ table_exists' = TRUE
    /\ staging' = {}
    /\ pc' = "insert_core"
    /\ UNCHANGED <<inputs, failed_step, unique_index, graph, files>>

\* cursor.execute(core_node_query_to_execute)
InsertCore ==
    /\ pc = "insert_core"
    /\ table_exists
    /\ staging' = staging \cup CoreNodeQuery(referral, detail, where_criteria)
    /\ pc' = "create_index"
    /\ UNCHANGED <<inputs, failed_step, table_exists, unique_index, graph, files>>

\* cursor.execute("create unique index idx_primary_npi_graph ...")
CreateIndex ==
    /\ pc = "create_index"
    /\ UniqueNpi(staging)
    /\ unique_index' = TRUE
    /\ pc' = "core_nodes"
    /\ UNCHANGED <<inputs, failed_step, table_exists, staging, graph, files>>

\* cursor.execute(npi_detail_query_to_execute); ProviderGraph = nx.DiGraph();
\* add_nodes_to_graph(cursor, ProviderGraph, "core", ...)
PopulateCoreNodes ==
    /\ pc = "core_nodes"
    /\ graph_node' = AddNodesToGraph(NpiDetailQuery(staging, detail), EmptyMap,
                                     "core", node_label_name)
    /\ graph_edge' = EmptyMap
    /\ pc' = AfterCoreNodes(add_leaf_nodes)
    /\ UNCHANGED <<inputs, failed_step, database, files>>

\* cursor.execute(add_leaf_node_query_to_execute)
InsertLeaf ==
    /\ pc = "insert_leaf"
    /\ LET added == AddLeafNodeQuery(referral, staging)
       IN  /\ unique_index => UniqueNpi(staging \cup added)
           /\ staging' = staging \cup added
    /\ pc' = "leaf_nodes"
    /\ UNCHANGED <<inputs, failed_step, table_exists, unique_index, graph, files>>

\* cursor.execute(populate_leaf_nodes_query_to_execute);
\* add_nodes_to_graph(cursor, ProviderGraph, "leaf", ...)
PopulateLeafNodes ==
    /\ pc = "leaf_nodes"
    /\ graph_node' = AddNodesToGraph(PopulateLeafNodesQuery(staging, detail),
                                     graph_node, "leaf", node_label_name)
    /\ pc' = "core_edges"
    /\ UNCHANGED <<inputs, failed_step, database, graph_edge, files>>

\* cursor.execute(add_core_query_to_execute); add_edges_to_graph(cursor, ProviderGraph)
PopulateEdges ==
    /\ pc = "core_edges"
    /\ LET cursor == CoreEdgeQuery(referral, staging)
       IN  /\ graph_edge' = AddEdgesEdge(cursor, graph_edge)
           /\ graph_node' = AddEdgesNode(cursor, graph_node)
    /\ pc' = AfterCoreEdges(add_leaf_to_leaf_edges)
    /\ UNCHANGED <<inputs, failed_step, database, files>>

\* cursor.execute(leaf_query_to_execute); add_edges_to_graph(cursor, ProviderGraph)
AddLeafEdges ==
    /\ pc = "leaf_edges"
    /\ LET cursor == LeafEdgeQuery(referral, staging)
       IN  /\ graph_edge' = AddEdgesEdge(cursor, graph_edge)
           /\ graph_node' = AddEdgesNode(cursor, graph_node)
    /\ pc' = "write_graphml"
    /\ UNCHANGED <<inputs, failed_step, database, files>>

\* A cursor.execute raises (malformed predicate, schema mismatch, lost
\* connection, a rejected insert): the statement changes nothing.
QueryFails ==
    /\ pc \in QuerySteps
    /\ failed_step = "none"
    /\ failed_step' = pc
    /\ pc' = OnQueryError(pc)
    /\ UNCHANGED <<inputs, database, graph, files>>

\* nx.write_graphml(ProviderGraph, ...)
WriteGraphml ==
    /\ pc = "write_graphml"
    /\ graphml_file' = [written |-> TRUE, node |-> graph_node, edge |-> graph_edge]
    /\ pc' = AfterGraphml(csv_output)
    /\ UNCHANGED <<inputs, failed_step, database, graph, edge_csv_file, node_csv_file>>

\* The edge CSV loop.
WriteEdgeCsv ==
    /\ pc = "write_edge_csv"
    /\ edge_csv_file' = [written |-> TRUE, rows |-> EdgeCsvRows(graph_edge)]
    /\ pc' = "write_node_csv"
    /\ UNCHANGED <<inputs, failed_step, database, graph, graphml_file, node_csv_file>>

\* The node CSV loop: the first node of ProviderGraph.node (dictionary order)
\* gives the header; with no node nothing is written to the opened file.
WriteNodeCsv ==
    /\ pc = "write_node_csv"
    /\ IF DOMAIN graph_node = {}
       THEN node_csv_file' = [written |-> TRUE, header |-> <<>>, rows |-> {}]
       ELSE \E first \in DOMAIN graph_node :
               LET header == NodeCsvHeader(graph_node[first])
               IN  node_csv_file' =
                      [written |-> TRUE, header |-> header,
                       rows |-> {NodeCsvRow(n, graph_node[n], header) :
                                   n \in DOMAIN graph_node}]
    /\ pc' = "done"
    /\ UNCHANGED <<inputs, failed_step, database, graph, graphml_file, edge_csv_file>>

Next ==
    \/ DropTable
    \/ CreateTable
    \/ InsertCore
    \/ CreateIndex
    \/ PopulateCoreNodes
    \/ InsertLeaf
    \/ PopulateLeafNodes
    \/ PopulateEdges
    \/ AddLeafEdges
    \/ QueryFails
    \/ WriteGraphml
    \/ WriteEdgeCsv
    \/ WriteNodeCsv

Spec == Init /\ [][Next]_vars

----------------------------------------------------------------------------
(* Vocabulary of the properties *)

CoreIds == {s.npi : s \in {r \in staging : r.node_type = "C"}}
LeafIds == {s.npi : s \in {r \in staging : r.node_type = "L"}}
StagedIds == {s.npi : s \in staging}

\* The staged tier of an identifier that is staged.
Tier(n) == (CHOOSE s \in staging : s.npi = n).node_type

\* The steps of the run other than a failing query.
RunStep ==
    \/ DropTable \/ CreateTable \/ InsertCore \/ CreateIndex
    \/ PopulateCoreNodes \/ InsertLeaf \/ PopulateLeafNodes
    \/ PopulateEdges \/ AddLeafEdges
    \/ WriteGraphml \/ WriteEdgeCsv \/ WriteNodeCsv

\* The scenario of the specification: the predicate selects A; the referral
\* table holds A->B (5), B->A (3), B->C (1).
ScenarioReferrals == {ReferralRow(<<"A", "B">>), ReferralRow(<<"B", "A">>),
                      ReferralRow(<<"B", "C">>)}
Scenario == referral = ScenarioReferrals /\ where_criteria = {"A"}

\* The referral rows the edge queries select: both ends staged, and one end
\* core or (with leaf-to-leaf export) both ends leaf.
Selected(rt) ==
    /\ rt.from \in StagedIds
    /\ rt.to \in StagedIds
    /\ \/ rt.from \in CoreIds
       \/ rt.to \in CoreIds
       \/ add_leaf_to_leaf_edges

\* The documented category of a referral by (from-tier, to-tier).
DocumentedCategory(from_tier, to_tier) ==
    CASE from_tier = "C" /\ to_tier = "C" -> "core-to-core"
      [] from_tier = "C" /\ to_tier = "L" -> "core-to-leaf"
      [] from_tier = "L" /\ to_tier = "C" -> "leaf-to-core"
      [] from_tier = "L" /\ to_tier = "L" -> "leaf-to-leaf"
      [] OTHER -> "None"

NoFileWritten ==
    /\ ~graphml_file.written
    /\ ~edge_csv_file.written
    /\ ~node_csv_file.written

----------------------------------------------------------------------------
(* Properties *)

\* C1: in every state of a run each identifier is staged at most once and
\* with one tier only (never both 'C' and 'L'), and every node of the graph
\* carries node_type core or leaf, the one of its staged tier, never both.
C1_OneTier ==
    /\ \A r \in staging : r.node_type \in {"C", "L"}
    /\ \A r1, r2 \in staging : r1.npi = r2.npi => r1 = r2
    /\ CoreIds \cap LeafIds = {}
    /\ \A n \in DOMAIN graph_node :
          /\ "node_type" \in DOMAIN graph_node[n]
          /\ graph_node[n].node_type \in {"core", "leaf"}
          /\ graph_node[n].node_type = "core" <=> n \in CoreIds
          /\ graph_node[n].node_type = "leaf" <=> n \in LeafIds

\* C2: with leaf inclusion enabled, once the leaf insert has run the staged
\* leaves are exactly the other endpoints of the referral rows that have a
\* core identifier as from or to endpoint, minus the core identifiers; in the
\* scenario core = {A}, leaf = {B} and C is not staged.
C2_LeafSet ==
    (add_leaf_nodes /\ Past("insert_leaf")) =>
       /\ LeafIds = {x \in Ids \ CoreIds :
                       \E r \in referral :
                          \/ r.from \in CoreIds /\ r.to = x
                          \/ r.to \in CoreIds /\ r.from = x}
       /\ Scenario => (CoreIds = {"A"} /\ LeafIds = {"B"} /\ "C" \notin StagedIds)

C2_Witness ==
    /\ Scenario /\ add_leaf_nodes /\ pc = "done"
    /\ CoreIds = {"A"} /\ LeafIds = {"B"}

\* C3: once the edges are in the graph, every referral row (u, v, w) the
\* edge queries select is the edge from u to v with weight w, and the edge
\* CSV holds the row (u, v, w); in the scenario with A core, B leaf, leaves
\* enabled and leaf-to-leaf export disabled the edges are exactly
\* (A,B,5,core-to-leaf) and (B,A,3,leaf-to-core).
C3_DirectionAndWeight ==
    Past("leaf_edges") =>
       /\ \A rt \in referral :
             Selected(rt) =>
                /\ <<rt.from, rt.to>> \in DOMAIN graph_edge
                /\ graph_edge[<<rt.from, rt.to>>].weight = rt.weight
                /\ edge_csv_file.written =>
                      <<rt.from, rt.to, rt.weight>> \in edge_csv_file.rows
       /\ (Scenario /\ add_leaf_nodes /\ ~add_leaf_to_leaf_edges) =>
             graph_edge = [e \in {<<"A", "B">>, <<"B", "A">>} |->
                             IF e = <<"A", "B">>
                             THEN [weight |-> 5, edge_type |-> "core-to-leaf"]
                             ELSE [weight |-> 3, edge_type |-> "leaf-to-core"]]

\* C4: the category of every edge is the documented function of the
\* (from-tier, to-tier) of the referral row it was made from: (core, core) ->
\* core-to-core, (core, leaf) -> core-to-leaf, (leaf, core) -> leaf-to-core,
\* (leaf, leaf) -> leaf-to-leaf.
C4_DocumentedCategory ==
    Past("leaf_edges") =>
       \A rt \in referral : \A e \in DOMAIN graph_edge :
          (Selected(rt) /\ graph_edge[e].weight = rt.weight) =>
             graph_edge[e].edge_type = DocumentedCategory(Tier(rt.from), Tier(rt.to))

\* C5 as stated: in the scenario with leaves enabled, the referral B->C is
\* absent from the graph when leaf-to-leaf export is disabled and present as a
\* leaf-to-leaf edge of weight 1 when it is enabled.
C5_AsStated ==
    (Scenario /\ add_leaf_nodes /\ Past("leaf_edges")) =>
       LET bc == {e \in DOMAIN graph_edge : e \in {<<"B", "C">>, <<"C", "B">>}}
       IN  IF add_leaf_to_leaf_edges
           THEN \E e \in bc : graph_edge[e] = [weight |-> 1,
                                               edge_type |-> "leaf-to-leaf"]
           ELSE bc = {}

\* C5 amended: in the scenario with leaves enabled, the referral B->C is
\* absent from the graph whether leaf-to-leaf export is disabled or enabled:
\* C is not staged, so no edge joins B and C and C is no node.
C5_Amended ==
    (Scenario /\ add_leaf_nodes) =>
       /\ <<"B", "C">> \notin DOMAIN graph_edge
       /\ <<"C", "B">> \notin DOMAIN graph_edge
       /\ "C" \notin DOMAIN graph_node
       /\ \A e \in DOMAIN graph_edge : graph_edge[e].weight # 1

C5_Witness ==
    /\ Scenario /\ add_leaf_nodes /\ add_leaf_to_leaf_edges
    /\ pc = "done"
    /\ DOMAIN graph_edge = {<<"A", "B">>, <<"B", "A">>}

\* C6: with leaf inclusion disabled, whatever the tables hold and whether or
\* not leaf-to-leaf export is requested, no identifier is staged or inserted
\* as a leaf and every edge is core-to-core between two core nodes.
C6_NoLeaves ==
    ~add_leaf_nodes =>
       /\ LeafIds = {}
       /\ \A n \in DOMAIN graph_node :
             /\ "node_type" \in DOMAIN graph_node[n]
             /\ graph_node[n].node_type = "core"
             /\ n \in CoreIds
       /\ \A e \in DOMAIN graph_edge :
             /\ graph_edge[e].edge_type = "core-to-core"
             /\ e[1] \in DOMAIN graph_node
             /\ e[2] \in DOMAIN graph_node
       /\ graphml_file.written =>
             \A e \in DOMAIN graphml_file.edge :
                graphml_file.edge[e].edge_type = "core-to-core"

C6_Witness ==
    /\ ~add_leaf_nodes /\ add_leaf_to_leaf_edges
    /\ pc = "done"
    /\ Cardinality(DOMAIN graph_edge) >= 2
    /\ \E r \in referral : r.from \in CoreIds /\ r.to \notin CoreIds

\* C7: a predicate that matches no detail row stages nothing (also with leaf
\* inclusion and leaf-to-leaf export enabled) and leaves the graph empty; no
\* step of the run is blocked, and the finished run has written the empty
\* graph file and, with CSV export on, the empty CSV files.
C7_EmptySelection ==
    where_criteria = {} =>
       /\ staging = {}
       /\ DOMAIN graph_node = {}
       /\ DOMAIN graph_edge = {}
       /\ pc \notin {"done", "aborted"} => ENABLED RunStep
       /\ pc = "done" =>
             /\ failed_step = "none"
             /\ graphml_file = [written |-> TRUE, node |-> EmptyMap,
                                edge |-> EmptyMap]
             /\ csv_output =>
                   /\ edge_csv_file = [written |-> TRUE, rows |-> {}]
                   /\ node_csv_file = [written |-> TRUE, header |-> <<>>,
                                       rows |-> {}]

C7_Witness ==
    /\ where_criteria = {}
    /\ Cardinality(referral) = MaxReferrals
    /\ DOMAIN detail = Ids
    /\ add_leaf_nodes /\ add_leaf_to_leaf_edges /\ csv_output
    /\ pc = "done"
    /\ graphml_file.written /\ edge_csv_file.written /\ node_csv_file.written

\* C8: the node CSV header is "node_id" followed by the sorted attribute
\* names of one node, and every data row has as many fields as the header,
\* the node first and then, under each attribute name of the header, the
\* node's value of that attribute or the empty string.
C8_NodeCsvAligned ==
    (node_csv_file.written /\ DOMAIN graph_node # {}) =>
       /\ \E first \in DOMAIN graph_node :
             node_csv_file.header = NodeCsvHeader(graph_node[first])
       /\ \A row \in node_csv_file.rows :
             /\ Len(row) = Len(node_csv_file.header)
             /\ row[1] \in DOMAIN graph_node
             /\ \A k \in 2..Len(node_csv_file.header) :
                   k <= Len(row) =>
                      row[k] = IF node_csv_file.header[k] \in DOMAIN graph_node[row[1]]
                               THEN graph_node[row[1]][node_csv_file.header[k]]
                               ELSE ""

\* C9: both endpoints of every edge of the graph are nodes that
\* add_nodes_to_graph inserted, so they carry a node_type; no edge insertion
\* creates a node.
C9_EndpointsAreNodes ==
    \A e \in DOMAIN graph_edge :
       \A n \in {e[1], e[2]} :
          /\ n \in DOMAIN graph_node
          /\ "node_type" \in DOMAIN graph_node[n]

\* C10: when a query step has failed the run is aborted at that step and none
\* of the three output files has been written.
C10_FailFast ==
    failed_step # "none" =>
       /\ pc = "aborted"
       /\ failed_step \in QuerySteps
       /\ NoFileWritten

C10_Witness ==
    /\ failed_step = "leaf_edges"
    /\ pc = "aborted"
    /\ DOMAIN graph_edge # {}
    /\ csv_output
    /\ NoFileWritten

====
